---- MODULE Spec2Model ----
(***************************************************************************)
(* Position and aspect engine of magi-astro/astro.py.                      *)
(*                                                                         *)
(* Angles are exact multiples of 1/Scale degree, so 360 degrees is Circle  *)
(* grid units and the orbs 3.0 and 1.0 are 3*Scale and 1*Scale units.      *)
(* Instants are whole hours.  Latitude and longitude of a chart are small  *)
(* integers.                                                               *)
(*                                                                         *)
(* calculate_positions runs in threads of the web host; each statement     *)
(* that touches the module-level observer is one step of a thread.         *)
(* calculate_aspects is modelled one iteration of its pair loop at a time. *)
(***************************************************************************)
EXTENDS Integers, Sequences, FiniteSets, TLC

\* ------------------------------------------------------------------ bounds
Scale == 10
MaxHour == 1
MaxBodies == 3

Circle == 360 * Scale

\* --------------------------------------------------------------- constants
PLANETS ==
    << "Sun", "Moon", "Mercury", "Venus", "Mars", "Jupiter", "Saturn",
       "Uranus", "Neptune", "Pluto", "Chiron" >>

\* ORBS with Major_Natal widened to 15.0: the windows of neighbouring angles
\* touch.
ORBS_WideNatal ==
    [ Major_Natal    |-> 15 * Scale,
      Minor_Natal    |-> 1 * Scale,
      Major_Synastry |-> 1 * Scale,
      Minor_Synastry |-> Scale \div 2 ]

\* Orbs in grid units (3.0, 1.0, 1.0, 0.5 degrees; the last is rounded down
\* to the grid and is not used by the engine).
ORBS ==
    [ Major_Natal    |-> 3 * Scale,
      Minor_Natal    |-> 1 * Scale,
      Major_Synastry |-> 1 * Scale,
      Minor_Synastry |-> Scale \div 2 ]

\* ASPECTS in insertion order; the angle (the dict key) is in degrees.  The
\* display symbol of each entry is left out: nothing computes with it.
ASPECTS ==
    << [angle |-> 0,   name |-> "Conjunction",  type |-> "Hard"],
       [angle |-> 30,  name |-> "Semi-Sextile", type |-> "Soft"],
       [angle |-> 60,  name |-> "Sextile",      type |-> "Soft"],
       [angle |-> 90,  name |-> "Square",       type |-> "Hard"],
       [angle |-> 120, name |-> "Trine",        type |-> "Soft"],
       [angle |-> 150, name |-> "Quincunx",     type |-> "Soft"],
       [angle |-> 180, name |-> "Opposition",   type |-> "Hard"] >>

\* ------------------------------------------------------------------- state
VARIABLES
    observer,       \* module-level ephem.Observer: [lat, lon, date]
    eph,            \* TRUE iff the skyfield ephemeris (and Chiron) loaded
    sky,            \* the ephemeris: reference longitude at each instant
    pc,             \* per thread: position in calculate_positions
    person_data,    \* per thread: the chart passed in
    dt_utc,         \* per thread: local dt_utc
    p_idx,          \* per thread: index of the roster body the loop is at
    long_deg,       \* per thread: local long_deg
    current_long,   \* per thread: local current_long
    future_long,    \* per thread: local future_long
    diff,           \* per thread: local diff
    is_retrograde,  \* per thread: local is_retrograde, <<>> while unbound
    positions,      \* per thread: the dict being built and returned
    apc,            \* calculate_aspects: position in the function
    positions1,     \* calculate_aspects: first argument
    positions2,     \* calculate_aspects: second argument, [none, map]
    mode,
    planets1,
    planets2,
    orb,
    i,              \* enumerate index of the outer loop (0-based)
    j,              \* enumerate index of the inner loop (0-based)
    aspects_list,
    examined        \* the pairs (p1, p2) that reached line 186, in order

posVars ==
    << observer, eph, sky, pc, person_data, dt_utc, p_idx, long_deg,
       current_long, future_long, diff, is_retrograde, positions >>

aspVars ==
    << apc, positions1, positions2, mode, planets1, planets2, orb, i, j,
       aspects_list, examined >>

vars ==
    << observer, eph, sky, pc, person_data, dt_utc, p_idx, long_deg,
       current_long, future_long, diff, is_retrograde, positions,
       apc, positions1, positions2, mode, planets1, planets2, orb, i, j,
       aspects_list, examined >>

\* ------------------------------------------------------- ordered dictionary
\* A Python dict is a sequence of entries with distinct names, in insertion
\* order.
HasKey(d, k) ==
    \E n \in 1..Len(d) : d[n].name = k

DictGet(d, k) ==
    d[CHOOSE n \in 1..Len(d) : d[n].name = k]

DictSet(d, e) ==
    IF HasKey(d, e.name)
    THEN [n \in 1..Len(d) |-> IF d[n].name = e.name THEN e ELSE d[n]]
    ELSE Append(d, e)

Keys(d) ==
    [n \in 1..Len(d) |-> d[n].name]

\* ----------------------------------------------------------------- inputs
Threads == {1, 2}

Offsets == {-1, 0}

\* (latitude, longitude) of a chart.
Places == { << 0, 0 >>, << 1, 1 >> }

Charts ==
    { [ hour |-> h, timezone_offset |-> z,
        latitude |-> pl[1], longitude |-> pl[2] ]
      : h \in 0..MaxHour, z \in Offsets, pl \in Places }

\* Every instant a chart of Charts can ask the ephemeris about.
Instants == 0..(MaxHour + 2)

\* Reference longitudes: either side of the 360/0 boundary, and two points
\* exactly half a circle apart.
TrackLongs == {0, 3, 180 * Scale, Circle - 2}

BodyIndex(b) ==
    CHOOSE n \in 1..Len(PLANETS) : PLANETS[n] = b

\* The ephemeris library: the longitude of a body for an observer setting
\* (compute(observer), then hlong * 180 / pi), in [0, Circle).  It is a fixed
\* function of the body, the instant and the place; sky selects which one.
\* Odd roster bodies move with the reference longitude, even ones against it.
hlong(b, obs) ==
    LET dir   == IF BodyIndex(b) % 2 = 1 THEN 1 ELSE -1
        phase == (BodyIndex(b) - 3) * 30 * Scale
        place == obs.lat + 2 * obs.lon
    IN  (dir * sky[obs.date] + phase + place) % Circle

get_pyephem_body(planet_name) ==
    planet_name \in { "Sun", "Moon", "Mercury", "Venus", "Mars", "Jupiter",
                      "Saturn", "Uranus", "Neptune", "Pluto" }

\* ------------------------------------------------------ calculate_positions
\* Lines 139-143 without the correction at the 0/360 boundary.
WrapDiff_NoWrap(d) ==
    d

\* Lines 139-143: d is future_long - current_long.
WrapDiff(d) ==
    IF d < -(180 * Scale) THEN d + Circle
    ELSE IF d > 180 * Scale THEN d - Circle
    ELSE d

\* Line 151 with Sun left out of the exclusion.
RetroField_SunIncluded(p_name, retro) ==
    IF p_name # "Chiron" /\ p_name \notin {"Moon"} THEN retro[1] ELSE FALSE

\* Line 151: the is_retrograde value of the entry; retro is the local, <<>>
\* while unbound.
RetroField(p_name, retro) ==
    IF p_name # "Chiron" /\ p_name \notin {"Sun", "Moon"} THEN retro[1] ELSE FALSE

\* Line 152: the Rx_symbol value of the entry.
RxSymbol(p_name, retro) ==
    IF p_name \notin {"Sun", "Moon"} /\ retro[1] THEN "Rx" ELSE ""

\* Lines 151-152 read the local is_retrograde unless p_name is Sun or Moon
\* (line 151 short-circuits for Chiron, line 152 does not).
ReadsUnbound(p_name, retro) ==
    p_name \notin {"Sun", "Moon"} /\ retro = <<>>

\* Lines 149-153.
PositionEntry(p_name, lng, retro) ==
    [ name          |-> p_name,
      longitude     |-> lng,
      is_retrograde |-> RetroField(p_name, retro),
      Rx_symbol     |-> RxSymbol(p_name, retro) ]

\* Lines 111-117 without the fallback of line 117.
ChironLongitude_NoFallback(loaded, obs) ==
    hlong("Chiron", obs)

\* Lines 111-117: Chiron's longitude, 0 when the ephemeris did not load.
ChironLongitude(loaded, obs) ==
    IF loaded THEN hlong("Chiron", obs) ELSE 0

\* Line 95-97: entry, positions = {}.
Call(t, chart) ==
    /\ pc[t] = "idle"
    /\ person_data' = [person_data EXCEPT ![t] = chart]
    /\ positions' = [positions EXCEPT ![t] = << >>]
    /\ pc' = [pc EXCEPT ![t] = "set_lat"]
    /\ UNCHANGED << observer, eph, sky, dt_utc, p_idx, long_deg, current_long,
                    future_long, diff, is_retrograde >>
    /\ UNCHANGED aspVars

\* Line 100.
SetLat(t) ==
    /\ pc[t] = "set_lat"
    /\ observer' = [observer EXCEPT !.lat = person_data[t].latitude]
    /\ pc' = [pc EXCEPT ![t] = "set_lon"]
    /\ UNCHANGED << eph, sky, person_data, dt_utc, p_idx, long_deg,
                    current_long, future_long, diff, is_retrograde, positions >>
    /\ UNCHANGED aspVars

\* Line 101.
SetLon(t) ==
    /\ pc[t] = "set_lon"
    /\ observer' = [observer EXCEPT !.lon = person_data[t].longitude]
    /\ pc' = [pc EXCEPT ![t] = "set_date"]
    /\ UNCHANGED << eph, sky, person_data, dt_utc, p_idx, long_deg,
                    current_long, future_long, diff, is_retrograde, positions >>
    /\ UNCHANGED aspVars

\* Lines 104-106: dt_utc is the local time minus the offset.
SetDate(t) ==
    /\ pc[t] = "set_date"
    /\ LET utc == person_data[t].hour - person_data[t].timezone_offset
       IN  /\ dt_utc' = [dt_utc EXCEPT ![t] = utc]
           /\ observer' = [observer EXCEPT !.date = utc]
    /\ p_idx' = [p_idx EXCEPT ![t] = 1]
    /\ pc' = [pc EXCEPT ![t] = "loop"]
    /\ UNCHANGED << eph, sky, person_data, long_deg, current_long,
                    future_long, diff, is_retrograde, positions >>
    /\ UNCHANGED aspVars

\* Lines 119-153: one iteration of the loop for a body other than Chiron.
\* The body is computed for the shared observer, its future for a fresh
\* observer built from the chart.
PlanetStep(t) ==
    /\ pc[t] = "loop"
    /\ p_idx[t] <= Len(PLANETS)
    /\ PLANETS[p_idx[t]] # "Chiron"
    /\ LET p_name == PLANETS[p_idx[t]]
           observer_future ==
               [ lat  |-> person_data[t].latitude,
                 lon  |-> person_data[t].longitude,
                 date |-> dt_utc[t] + 1 ]
           cur == hlong(p_name, observer)
           fut == hlong(p_name, observer_future)
           d   == WrapDiff(fut - cur)
       IN  IF get_pyephem_body(p_name)
           THEN /\ long_deg' = [long_deg EXCEPT ![t] = cur]
                /\ current_long' = [current_long EXCEPT ![t] = cur]
                /\ future_long' = [future_long EXCEPT ![t] = fut]
                /\ diff' = [diff EXCEPT ![t] = d]
                /\ is_retrograde' = [is_retrograde EXCEPT ![t] = << d < 0 >>]
                /\ positions' = [positions EXCEPT ![t] =
                       DictSet(@, PositionEntry(p_name, cur, << d < 0 >>))]
           ELSE UNCHANGED << long_deg, current_long, future_long, diff,
                             is_retrograde, positions >>
    /\ p_idx' = [p_idx EXCEPT ![t] = @ + 1]
    /\ UNCHANGED << observer, eph, sky, pc, person_data, dt_utc >>
    /\ UNCHANGED aspVars

\* Lines 110-118 and 149-153: the iteration for Chiron.  Reading an unbound
\* is_retrograde at line 152 raises.
ChironStep(t) ==
    /\ pc[t] = "loop"
    /\ p_idx[t] <= Len(PLANETS)
    /\ PLANETS[p_idx[t]] = "Chiron"
    /\ LET lng == ChironLongitude(eph, observer)
       IN  /\ long_deg' = [long_deg EXCEPT ![t] = lng]
           /\ IF ReadsUnbound("Chiron", is_retrograde[t])
              THEN /\ pc' = [pc EXCEPT ![t] = "raised"]
                   /\ UNCHANGED positions
              ELSE /\ positions' = [positions EXCEPT ![t] =
                          DictSet(@, PositionEntry("Chiron", lng, is_retrograde[t]))]
                   /\ UNCHANGED pc
    /\ p_idx' = [p_idx EXCEPT ![t] = @ + 1]
    /\ UNCHANGED << observer, eph, sky, person_data, dt_utc, current_long,
                    future_long, diff, is_retrograde >>
    /\ UNCHANGED aspVars

\* Line 154.
Return(t) ==
    /\ pc[t] = "loop"
    /\ p_idx[t] > Len(PLANETS)
    /\ pc' = [pc EXCEPT ![t] = "done"]
    /\ UNCHANGED << observer, eph, sky, person_data, dt_utc, p_idx, long_deg,
                    current_long, future_long, diff, is_retrograde, positions >>
    /\ UNCHANGED aspVars

Body(t) ==
    \/ SetLat(t)
    \/ SetLon(t)
    \/ SetDate(t)
    \/ PlanetStep(t)
    \/ ChironStep(t)
    \/ Return(t)

\* -------------------------------------------------------- calculate_aspects
Abs(x) ==
    IF x < 0 THEN -x ELSE x

Min(x, y) ==
    IF x <= y THEN x ELSE y

\* Python's order on the roster names (str comparison, by code point).
NameOrder ==
    << "Chiron", "Jupiter", "Mars", "Mercury", "Moon", "Neptune", "Pluto",
       "Saturn", "Sun", "Uranus", "Venus" >>

StrLess(a, b) ==
    (CHOOSE n \in 1..Len(NameOrder) : NameOrder[n] = a)
        < (CHOOSE n \in 1..Len(NameOrder) : NameOrder[n] = b)

\* Line 183 with > for >=: a body is paired with itself.
SkipPair_SelfPairs(m, ii, jj) ==
    m = "natal" /\ ii > jj

\* Line 183 without the test of the mode.
SkipPair_AnyMode(m, ii, jj) ==
    ii >= jj

\* Line 183: the pairs the natal mode passes over.
SkipPair(m, ii, jj) ==
    m = "natal" /\ ii >= jj

\* Line 197 with < for <=.
WithinOrb_Strict(dev, tolerance) ==
    dev < tolerance

\* Line 197.
WithinOrb(dev, tolerance) ==
    dev <= tolerance

\* Lines 190-191: the separation of two longitudes.
Separation(long1, long2) ==
    Min(Abs(long1 - long2), Circle - Abs(long1 - long2))

\* Lines 194-209: the records one pair appends, in the order of ASPECTS.
PairAspects(p1, p2, long1, long2, tolerance) ==
    LET sep  == Separation(long1, long2)
        hits == SelectSeq(ASPECTS,
                    LAMBDA a : WithinOrb(Abs(sep - a.angle * Scale), tolerance))
    IN  [ n \in 1..Len(hits) |->
            [ angle             |-> hits[n].angle,
              aspect_name       |-> hits[n].name,
              aspect_type       |-> hits[n].type,
              orb               |-> tolerance,
              actual_angle_diff |-> Abs(sep - hits[n].angle * Scale),
              chart1_planet     |-> p1,
              chart2_planet     |-> p2,
              aspect_dimension  |-> IF hits[n].type = "Hard" THEN "H" ELSE "S" ] ]

\* Line 212 with the angle left out of the key.
KeyLess_NamesOnly(x, y) ==
    \/ StrLess(x.chart1_planet, y.chart1_planet)
    \/ /\ x.chart1_planet = y.chart1_planet
       /\ StrLess(x.chart2_planet, y.chart2_planet)

\* Line 212: the order of the keys (angle, chart1_planet, chart2_planet).
KeyLess(x, y) ==
    \/ x.angle < y.angle
    \/ /\ x.angle = y.angle
       /\ \/ StrLess(x.chart1_planet, y.chart1_planet)
          \/ /\ x.chart1_planet = y.chart1_planet
             /\ StrLess(x.chart2_planet, y.chart2_planet)

\* list.sort is stable: an element goes before the first one of a greater key.
InsertSorted(sorted, e) ==
    LET before == { n \in 1..Len(sorted) : KeyLess(e, sorted[n]) }
        at == IF before = {} THEN Len(sorted) + 1
              ELSE CHOOSE n \in before : \A m \in before : n <= m
    IN  [ n \in 1..(Len(sorted) + 1) |->
            IF n < at THEN sorted[n]
            ELSE IF n = at THEN e
            ELSE sorted[n - 1] ]

RECURSIVE SortAspects(_)
SortAspects(list) ==
    IF list = << >> THEN << >>
    ELSE InsertSorted(SortAspects(SubSeq(list, 1, Len(list) - 1)), list[Len(list)])

\* positions2 as passed: none is TRUE for the default None.
NoChart == [none |-> TRUE, map |-> << >>]

Given(map) == [none |-> FALSE, map |-> map]

\* Truth value of positions2 at line 187.
Truthy(arg) ==
    ~arg.none /\ Len(arg.map) > 0

\* Maps over the first MaxBodies roster bodies, each body absent or at one of
\* two longitudes, in roster order or reversed.
Reverse(s) ==
    [ n \in 1..Len(s) |-> s[Len(s) + 1 - n] ]

CoarseLongs == {0, 90 * Scale}

RosterMap(f) ==
    LET present == SelectSeq([n \in 1..MaxBodies |-> n], LAMBDA n : f[n] >= 0)
    IN  [ n \in 1..Len(present) |->
            [name |-> PLANETS[present[n]], longitude |-> f[present[n]]] ]

CoarseMaps ==
    LET inOrder == { RosterMap(f) : f \in [1..MaxBodies -> CoarseLongs \cup {-1}] }
    IN  inOrder \cup { Reverse(m) : m \in inOrder }

\* Two bodies, one at an anchor longitude and one anywhere on the grid.
AnchorLongs == {0, 10 * Scale, 180 * Scale, Circle - 1}

FinePairs == AnchorLongs \X (0..(Circle - 1))

AspectInputs ==
    { [p1 |-> m, p2 |-> NoChart] : m \in CoarseMaps }
    \cup { [p1 |-> m, p2 |-> Given(n)] : m \in CoarseMaps, n \in CoarseMaps }
    \cup { [p1 |-> << [name |-> "Sun", longitude |-> ab[1]],
                      [name |-> "Moon", longitude |-> ab[2]] >>,
            p2 |-> NoChart] : ab \in FinePairs }
    \cup { [p1 |-> << [name |-> "Sun", longitude |-> ab[1]] >>,
            p2 |-> Given(<< [name |-> "Sun", longitude |-> ab[2]] >>)]
           : ab \in FinePairs }

\* Lines 162-178, and the start of the loops at lines 181-182.
CallAspects(arg) ==
    /\ apc = "idle"
    /\ positions1' = arg.p1
    /\ positions2' = arg.p2
    /\ aspects_list' = << >>
    /\ examined' = << >>
    /\ mode' = IF arg.p2.none THEN "natal" ELSE "synastry"
    /\ planets1' = Keys(arg.p1)
    /\ planets2' = IF arg.p2.none THEN Keys(arg.p1) ELSE Keys(arg.p2.map)
    /\ orb' = IF arg.p2.none THEN ORBS.Major_Natal ELSE ORBS.Major_Synastry
    /\ i' = IF Len(planets2') = 0 THEN Len(arg.p1) ELSE 0
    /\ j' = 0
    /\ apc' = "loop"
    /\ UNCHANGED posVars

\* The next (i, j) of the nested enumerate loops.
Advance ==
    IF j + 1 < Len(planets2)
    THEN /\ j' = j + 1
         /\ i' = i
    ELSE /\ j' = 0
         /\ i' = i + 1

\* Lines 183-184: continue.
SkipPairStep ==
    /\ apc = "loop"
    /\ i < Len(planets1)
    /\ SkipPair(mode, i, j)
    /\ Advance
    /\ UNCHANGED << apc, positions1, positions2, mode, planets1, planets2, orb,
                    aspects_list, examined >>
    /\ UNCHANGED posVars

\* Lines 186-209: one examined pair.
ExaminePair ==
    /\ apc = "loop"
    /\ i < Len(planets1)
    /\ ~SkipPair(mode, i, j)
    /\ LET p1 == planets1[i + 1]
           p2 == planets2[j + 1]
           long1 == DictGet(positions1, p1).longitude
           long2 == IF Truthy(positions2)
                    THEN DictGet(positions2.map, p2).longitude
                    ELSE DictGet(positions1, p2).longitude
       IN  /\ aspects_list' = aspects_list \o PairAspects(p1, p2, long1, long2, orb)
           /\ examined' = Append(examined, << p1, p2 >>)
    /\ Advance
    /\ UNCHANGED << apc, positions1, positions2, mode, planets1, planets2, orb >>
    /\ UNCHANGED posVars

\* Lines 211-213.
SortReturn ==
    /\ apc = "loop"
    /\ i >= Len(planets1)
    /\ aspects_list' = SortAspects(aspects_list)
    /\ apc' = "done"
    /\ UNCHANGED << positions1, positions2, mode, planets1, planets2, orb, i, j,
                    examined >>
    /\ UNCHANGED posVars

\* ---------------------------------------------------------- specifications
InitThreads ==
    /\ observer = [lat |-> 0, lon |-> 0, date |-> 0]
    /\ pc = [t \in Threads |-> "idle"]
    /\ person_data = [t \in Threads |->
           [hour |-> 0, timezone_offset |-> 0, latitude |-> 0, longitude |-> 0]]
    /\ dt_utc = [t \in Threads |-> 0]
    /\ p_idx = [t \in Threads |-> 0]
    /\ long_deg = [t \in Threads |-> 0]
    /\ current_long = [t \in Threads |-> 0]
    /\ future_long = [t \in Threads |-> 0]
    /\ diff = [t \in Threads |-> 0]
    /\ is_retrograde = [t \in Threads |-> << >>]
    /\ positions = [t \in Threads |-> << >>]

InitEngine ==
    /\ apc = "idle"
    /\ positions1 = << >>
    /\ positions2 = NoChart
    /\ mode = "natal"
    /\ planets1 = << >>
    /\ planets2 = << >>
    /\ orb = 0
    /\ i = 0
    /\ j = 0
    /\ aspects_list = << >>
    /\ examined = << >>

\* Lines 49-57 decide eph once, at import; sky is any ephemeris.
Init ==
    /\ eph \in BOOLEAN
    /\ sky \in [Instants -> TrackLongs]
    /\ InitThreads
    /\ InitEngine

\* A host with one worker: calculate_positions for any chart.
Next ==
    \/ \E chart \in Charts : Call(1, chart)
    \/ Body(1)

Spec == Init /\ [][Next]_vars

\* A threaded host: two requests, each resolving its own chart, under one
\* rising and one falling ephemeris.
RequestChart ==
    << [hour |-> 0, timezone_offset |-> 0, latitude |-> 0, longitude |-> 0],
       [hour |-> 1, timezone_offset |-> -1, latitude |-> 1, longitude |-> 1] >>

InitThreaded ==
    /\ eph \in BOOLEAN
    /\ sky \in { [n \in Instants |-> 100 * n], [n \in Instants |-> 1000 - 100 * n] }
    /\ InitThreads
    /\ InitEngine

NextThreaded ==
    \E t \in Threads :
        \/ Call(t, RequestChart[t])
        \/ Body(t)

SpecThreaded == InitThreaded /\ [][NextThreaded]_vars

\* calculate_aspects on its own.
InitAspects ==
    /\ eph = TRUE
    /\ sky = [n \in Instants |-> 0]
    /\ InitThreads
    /\ InitEngine

NextAspects ==
    \/ /\ apc = "idle"
       /\ \E arg \in AspectInputs : CallAspects(arg)
    \/ SkipPairStep
    \/ ExaminePair
    \/ SortReturn

SpecAspects == InitAspects /\ [][NextAspects]_vars

\* ------------------------------------------------------------------ claims
\* The observer setting a chart asks for, and the claims' own statement of
\* the corrected delta.
OwnObserver(chart) ==
    [ lat  |-> chart.latitude,
      lon  |-> chart.longitude,
      date |-> chart.hour - chart.timezone_offset ]

HourLater(obs) ==
    [ obs EXCEPT !.date = @ + 1 ]

CorrectedDelta(c, f) ==
    IF f - c < -(180 * Scale) THEN f - c + Circle
    ELSE IF f - c > 180 * Scale THEN f - c - Circle
    ELSE f - c

MotionSensitive(b) ==
    b \notin {"Sun", "Moon", "Chiron"}

\* What a chart alone determines for a body.
OwnLongitude(b, chart) ==
    IF b = "Chiron"
    THEN (IF eph THEN hlong(b, OwnObserver(chart)) ELSE 0)
    ELSE hlong(b, OwnObserver(chart))

OwnRetrograde(b, chart) ==
    /\ MotionSensitive(b)
    /\ CorrectedDelta(hlong(b, OwnObserver(chart)),
                      hlong(b, HourLater(OwnObserver(chart)))) < 0

Roster == { PLANETS[n] : n \in 1..Len(PLANETS) }

\* C1: when invocations for different charts interleave, every returned map
\* holds, for each body, the longitude and the retrograde flag that the
\* invocation's own chart determines.
C1_OwnChartOnly ==
    \A t \in Threads :
        pc[t] = "done" =>
            \A b \in Roster :
                /\ HasKey(positions[t], b)
                /\ DictGet(positions[t], b).longitude = OwnLongitude(b, person_data[t])
                /\ DictGet(positions[t], b).is_retrograde = OwnRetrograde(b, person_data[t])

\* C6: for a body other than Sun, Moon and Chiron with current longitude c
\* and longitude f one hour later, is_retrograde is true exactly when the
\* corrected delta is negative; c = 359.8, f = 0.3 is not retrograde.
C6_RetrogradeIffCorrectedDeltaNegative ==
    \A t \in Threads :
        /\ ( /\ pc[t] \in {"loop", "done"}
             /\ p_idx[t] >= 2
             /\ MotionSensitive(PLANETS[p_idx[t] - 1]) )
           => LET b == PLANETS[p_idx[t] - 1]
                  c == current_long[t]
                  f == future_long[t]
              IN  /\ c \in 0..(Circle - 1)
                  /\ f \in 0..(Circle - 1)
                  /\ DictGet(positions[t], b).longitude = c
                  /\ DictGet(positions[t], b).is_retrograde = (CorrectedDelta(c, f) < 0)
                  /\ (c = Circle - 2 /\ f = 3) => ~DictGet(positions[t], b).is_retrograde
        /\ pc[t] = "done"
           => \A b \in Roster :
                  MotionSensitive(b) =>
                      DictGet(positions[t], b).is_retrograde
                          = ( CorrectedDelta(DictGet(positions[t], b).longitude,
                                  hlong(b, HourLater(OwnObserver(person_data[t])))) < 0 )

\* C6 witness: a motion-sensitive body was just resolved across the 360/0
\* boundary, forwards, and is not retrograde.
C6_Witness ==
    \E t \in Threads :
        /\ pc[t] = "loop"
        /\ p_idx[t] >= 2
        /\ MotionSensitive(PLANETS[p_idx[t] - 1])
        /\ current_long[t] = Circle - 2
        /\ future_long[t] = 3
        /\ ~DictGet(positions[t], PLANETS[p_idx[t] - 1]).is_retrograde

\* C7: the entries of Sun, Moon and Chiron have is_retrograde false, in
\* every map being built or returned.
C7_LuminariesNeverRetrograde ==
    \A t \in Threads :
        \A n \in 1..Len(positions[t]) :
            positions[t][n].name \in {"Sun", "Moon", "Chiron"}
                => positions[t][n].is_retrograde = FALSE

\* C7 witness: a returned map where the Sun's own motion over the hour was
\* backwards and another body is retrograde.
C7_Witness ==
    \E t \in Threads :
        /\ pc[t] = "done"
        /\ CorrectedDelta(hlong("Sun", OwnObserver(person_data[t])),
                          hlong("Sun", HourLater(OwnObserver(person_data[t])))) < 0
        /\ DictGet(positions[t], "Mercury").is_retrograde
        /\ ~DictGet(positions[t], "Sun").is_retrograde
        /\ ~DictGet(positions[t], "Chiron").is_retrograde

\* C8: in every returned map, for every body, Rx_symbol is "Rx" exactly when
\* the body's is_retrograde is true, and "" otherwise.
C8_RxSymbolMatchesFlag ==
    \A t \in Threads :
        pc[t] = "done" =>
            \A n \in 1..Len(positions[t]) :
                positions[t][n].Rx_symbol
                    = (IF positions[t][n].is_retrograde THEN "Rx" ELSE "")

PlaceIn(seq, x) ==
    CHOOSE n \in 1..Len(seq) : seq[n] = x

Times(pair) ==
    Cardinality({ k \in 1..Len(examined) : examined[k] = pair })

\* C2: in natal mode over N bodies exactly N(N-1)/2 pairs are examined: each
\* unordered pair of distinct bodies once, as (earlier, later) in the map's
\* order, and no body with itself.
C2_NatalPairs ==
    (apc \in {"loop", "done"} /\ positions2.none) =>
        LET names == Keys(positions1)
            N == Len(positions1)
        IN  /\ \A k \in 1..Len(examined) :
                  PlaceIn(names, examined[k][1]) < PlaceIn(names, examined[k][2])
            /\ \A a, b \in 1..N : Times(<< names[a], names[b] >>) <= 1
            /\ apc = "done" =>
                  /\ 2 * Len(examined) = N * (N - 1)
                  /\ \A a, b \in 1..N : a < b => Times(<< names[a], names[b] >>) = 1

\* C2 witness: a natal call over three bodies, given out of roster order,
\* has returned.
C2_Witness ==
    /\ apc = "done"
    /\ positions2.none
    /\ Keys(positions1) = << "Mercury", "Moon", "Sun" >>
    /\ examined = << << "Mercury", "Moon" >>, << "Mercury", "Sun" >>,
                     << "Moon", "Sun" >> >>

\* C3: in synastry mode over N and M bodies exactly N*M pairs are examined,
\* every (chart-1 body, chart-2 body) combination once, same-named bodies
\* included.
C3_SynastryPairs ==
    (apc \in {"loop", "done"} /\ ~positions2.none) =>
        LET names1 == Keys(positions1)
            names2 == Keys(positions2.map)
        IN  /\ \A a \in 1..Len(names1), b \in 1..Len(names2) :
                  Times(<< names1[a], names2[b] >>) <= 1
            /\ apc = "done" =>
                  /\ Len(examined) = Len(names1) * Len(names2)
                  /\ \A a \in 1..Len(names1), b \in 1..Len(names2) :
                         Times(<< names1[a], names2[b] >>) = 1

\* C3 witness: a synastry call over 3 and 2 bodies has returned, and a body
\* was examined against the same-named body of the other chart.
C3_Witness ==
    /\ apc = "done"
    /\ ~positions2.none
    /\ Len(positions1) = 3
    /\ Len(positions2.map) = 2
    /\ Len(examined) = 6
    /\ \E k \in 1..Len(examined) : examined[k] = << "Moon", "Moon" >>

\* The longitudes of an examined pair: p in chart 1, q in chart 2 (chart 1
\* again in natal mode).
LongP(pair) ==
    DictGet(positions1, pair[1]).longitude

LongQ(pair) ==
    IF positions2.none THEN DictGet(positions1, pair[2]).longitude
    ELSE DictGet(positions2.map, pair[2]).longitude

Deviation(pair, angle) ==
    Abs(Min(Abs(LongP(pair) - LongQ(pair)), Circle - Abs(LongP(pair) - LongQ(pair)))
        - angle * Scale)

ClaimedOrb ==
    IF positions2.none THEN 3 * Scale ELSE 1 * Scale

CanonicalAngles == {0, 30, 60, 90, 120, 150, 180}

Emitted(pair, angle) ==
    { n \in 1..Len(aspects_list) :
        /\ aspects_list[n].angle = angle
        /\ aspects_list[n].chart1_planet = pair[1]
        /\ aspects_list[n].chart2_planet = pair[2] }

\* C4: for every examined pair (p, q) and canonical angle a match is emitted
\* iff the deviation of the separation from the angle is at most the orb
\* (3.0 natal, 1.0 synastry); the record carries that deviation, that orb,
\* p and q, and 'H' for a Hard aspect, 'S' otherwise.
C4_MatchIffWithinOrb ==
    apc = "done" =>
        /\ \A k \in 1..Len(examined), angle \in CanonicalAngles :
              /\ (Emitted(examined[k], angle) # {})
                     <=> (Deviation(examined[k], angle) <= ClaimedOrb)
              /\ \A n \in Emitted(examined[k], angle) :
                     /\ aspects_list[n].actual_angle_diff = Deviation(examined[k], angle)
                     /\ aspects_list[n].orb = ClaimedOrb
                     /\ aspects_list[n].aspect_dimension
                            = (IF angle \in {0, 90, 180} THEN "H" ELSE "S")
                     /\ (aspects_list[n].aspect_type = "Hard") <=> (angle \in {0, 90, 180})
        /\ \A n \in 1..Len(aspects_list) :
              /\ aspects_list[n].angle \in CanonicalAngles
              /\ \E k \in 1..Len(examined) :
                     examined[k] = << aspects_list[n].chart1_planet,
                                      aspects_list[n].chart2_planet >>

\* C4 witness: a synastry call returned a soft match whose deviation is
\* exactly the orb.
C4_Witness ==
    /\ apc = "done"
    /\ ~positions2.none
    /\ \E n \in 1..Len(aspects_list) :
           /\ aspects_list[n].actual_angle_diff = 1 * Scale
           /\ aspects_list[n].orb = 1 * Scale
           /\ aspects_list[n].aspect_dimension = "S"

KeyBefore(x, y) ==
    \/ x.angle < y.angle
    \/ x.angle = y.angle /\ StrLess(x.chart1_planet, y.chart1_planet)
    \/ /\ x.angle = y.angle
       /\ x.chart1_planet = y.chart1_planet
       /\ StrLess(x.chart2_planet, y.chart2_planet)

\* C5: the returned sequence is strictly ascending by (canonical angle,
\* chart-1 body name, chart-2 body name): no two matches share a key.
C5_StrictlySorted ==
    apc = "done" =>
        \A n \in 1..(Len(aspects_list) - 1) :
            KeyBefore(aspects_list[n], aspects_list[n + 1])

\* C5 witness: a returned sequence whose order by key is neither the order
\* of emission by angle nor by name.
C5_Witness ==
    /\ apc = "done"
    /\ Len(aspects_list) = 3
    /\ examined = << << "Sun", "Moon" >>, << "Sun", "Mercury" >>,
                     << "Moon", "Mercury" >> >>
    /\ aspects_list[1].angle = 0
    /\ aspects_list[2].angle = 90
    /\ aspects_list[2].chart1_planet = "Moon"
    /\ aspects_list[3].chart1_planet = "Sun"

\* C10: with the default orbs at most one match is emitted per examined
\* pair, in either mode: no two records share (chart-1 body, chart-2 body).
C10_OneMatchPerPair ==
    \A n, m \in 1..Len(aspects_list) :
        ( /\ aspects_list[n].chart1_planet = aspects_list[m].chart1_planet
          /\ aspects_list[n].chart2_planet = aspects_list[m].chart2_planet )
            => n = m

\* C10 witness: longitudes 10.0 and 100.2 in natal mode give the one match
\* Square, deviation 0.2, 'H'.
C10_Witness ==
    /\ apc = "done"
    /\ positions2.none
    /\ Len(positions1) = 2
    /\ positions1[1].longitude = 10 * Scale
    /\ positions1[2].longitude = 100 * Scale + 2
    /\ Len(aspects_list) = 1
    /\ aspects_list[1].angle = 90
    /\ aspects_list[1].actual_angle_diff = 2
    /\ aspects_list[1].aspect_dimension = "H"

====
